---- MODULE Spec2Model ----
(***************************************************************************)
(* tsdb-tools, InfluxDB target (src/src/influx.rs): the two converters     *)
(*   line_protocol_to_csv      line protocol -> CSV                        *)
(*   LineWriter::from_csv_file / from_csv_dir   CSV -> line protocol       *)
(* A string is a sequence of one-character strings, so that parsing,       *)
(* formatting and byte-wise ordering are computed and not assumed.  A      *)
(* 64-bit integer is a sign and a sequence of decimal digits; wrapping     *)
(* arithmetic goes through four 16-bit limbs.                              *)
(***************************************************************************)
EXTENDS Integers, Sequences, FiniteSets, TLC

(* ------------------------------ text ---------------------------------- *)

DigitChars == <<"0", "1", "2", "3", "4", "5", "6", "7", "8", "9">>

IsDigit(c) == \E i \in 1..Len(DigitChars) : DigitChars[i] = c

DigitVal(c) == (CHOOSE i \in 1..Len(DigitChars) : DigitChars[i] = c) - 1

DigitChar(d) == DigitChars[d + 1]

AllDigits(s) == \A i \in 1..Len(s) : IsDigit(s[i])

DigitString(ds) == [i \in 1..Len(ds) |-> DigitChar(ds[i])]

DigitValues(s) == [i \in 1..Len(s) |-> DigitVal(s[i])]

RECURSIVE StripLeadingZeros(_)
StripLeadingZeros(ds) ==
    IF Len(ds) > 1 /\ ds[1] = 0 THEN StripLeadingZeros(Tail(ds)) ELSE ds

RECURSIVE StripTrailingZeros(_)
StripTrailingZeros(ds) ==
    IF Len(ds) > 0 /\ ds[Len(ds)] = 0
    THEN StripTrailingZeros(SubSeq(ds, 1, Len(ds) - 1))
    ELSE ds

RECURSIVE Concat(_)
Concat(ss) == IF ss = << >> THEN << >> ELSE Head(ss) \o Concat(Tail(ss))

RECURSIVE Join(_, _)
Join(ss, sep) ==
    IF ss = << >> THEN << >>
    ELSE IF Len(ss) = 1 THEN ss[1]
    ELSE ss[1] \o sep \o Join(Tail(ss), sep)

Idx(n) == [i \in 1..n |-> i]

Range(f) == {f[i] : i \in DOMAIN f}

\* Byte order of the characters that occur in paths (ASCII order).
AsciiOrder ==
    <<".", "/", "0", "1", "2", "3", "4", "5", "6", "7", "8", "9", "_", "a", "b", "c", "d", "e", "f", "g", "h", "i", "j", "k", "l", "m", "n", "o", "p", "q", "r", "s", "t", "u", "v", "w", "x", "y", "z">>

Byte(c) == CHOOSE i \in 1..Len(AsciiOrder) : AsciiOrder[i] = c

RECURSIVE StrLess(_, _)
\* str's Ord: byte-wise lexicographic, a proper prefix is smaller
StrLess(a, b) ==
    IF b = << >> THEN FALSE
    ELSE IF a = << >> THEN TRUE
    ELSE IF a[1] = b[1] THEN StrLess(Tail(a), Tail(b))
    ELSE Byte(a[1]) < Byte(b[1])

(* ----------------------- 64-bit signed integers ------------------------ *)

\* an i64 is [neg, digits]: sign and magnitude in decimal, no leading zero
I64MaxDigits == DigitValues(<<"9", "2", "2", "3", "3", "7", "2", "0", "3", "6", "8", "5", "4", "7", "7", "5", "8", "0", "7">>)

I64MinDigits == DigitValues(<<"9", "2", "2", "3", "3", "7", "2", "0", "3", "6", "8", "5", "4", "7", "7", "5", "8", "0", "8">>)

MagLess(a, b) ==
    \/ Len(a) < Len(b)
    \/ /\ Len(a) = Len(b)
       /\ \E i \in 1..Len(a) :
            /\ a[i] < b[i]
            /\ \A j \in 1..(i - 1) : a[j] = b[j]

IsZero(ds) == ds = <<0>>

MkInt(neg, ds) ==
    LET m == StripLeadingZeros(ds)
    IN  [neg |-> neg /\ ~IsZero(m), digits |-> m]

InI64Range(x) ==
    IF x.neg THEN ~MagLess(I64MinDigits, x.digits)
    ELSE ~MagLess(I64MaxDigits, x.digits)

\* str::parse::<i64>: optional sign, then one or more decimal digits, in range
ParseI64(s) ==
    LET signed == Len(s) > 0 /\ s[1] \in {"+", "-"}
        body   == IF signed THEN Tail(s) ELSE s
        v      == MkInt(signed /\ s[1] = "-", DigitValues(body))
    IN  IF body = << >> \/ ~AllDigits(body) THEN [ok |-> FALSE]
        ELSE IF ~InI64Range(v) THEN [ok |-> FALSE]
        ELSE [ok |-> TRUE, v |-> v]

\* Display for i64
FormatI64(x) == (IF x.neg THEN <<"-">> ELSE << >>) \o DigitString(x.digits)

\* the product of x and 1000 in the integers
ExactMul1000(x) ==
    IF IsZero(x.digits) THEN x ELSE [x EXCEPT !.digits = @ \o <<0, 0, 0>>]

Base == 2 ^ 16

ZeroLimbs == <<0, 0, 0, 0>>

\* (l * k + a) mod 2^64 on little-endian 16-bit limbs
MulAddSmall(l, k, a) ==
    LET t1 == l[1] * k + a
        t2 == l[2] * k + (t1 \div Base)
        t3 == l[3] * k + (t2 \div Base)
        t4 == l[4] * k + (t3 \div Base)
    IN  <<t1 % Base, t2 % Base, t3 % Base, t4 % Base>>

\* quotient and remainder of l by a small k
DivSmall(l, k) ==
    LET t4 == l[4]
        t3 == (t4 % k) * Base + l[3]
        t2 == (t3 % k) * Base + l[2]
        t1 == (t2 % k) * Base + l[1]
    IN  [q |-> <<t1 \div k, t2 \div k, t3 \div k, t4 \div k>>, r |-> t1 % k]

\* two's complement negation
NegateLimbs(l) ==
    MulAddSmall([i \in 1..4 |-> (Base - 1) - l[i]], 1, 1)

RECURSIVE LimbsOfDigits(_, _)
LimbsOfDigits(ds, acc) ==
    IF ds = << >> THEN acc
    ELSE LimbsOfDigits(Tail(ds), MulAddSmall(acc, 10, Head(ds)))

RECURSIVE DigitsOfLimbs(_)
DigitsOfLimbs(l) ==
    IF l = ZeroLimbs THEN << >>
    ELSE LET d == DivSmall(l, 10) IN DigitsOfLimbs(d.q) \o <<d.r>>

\* the value congruent to x modulo 2^64 that lies in the i64 range
WrapI64(x) ==
    LET u  == LimbsOfDigits(x.digits, ZeroLimbs)
        w  == IF x.neg THEN NegateLimbs(u) ELSE u
        ng == w[4] >= Base \div 2
        m  == DigitsOfLimbs(IF ng THEN NegateLimbs(w) ELSE w)
    IN  MkInt(ng, IF m = << >> THEN <<0>> ELSE m)

\* `ts * 1000` on i64 where the build lets it wrap
Mul1000(x) == WrapI64(ExactMul1000(x))

(* ------------------------- 64-bit floats ------------------------------ *)

\* str::parse::<f64> on the cells of the model: an optional sign, then
\* `inf`, `infinity`, `nan`, or decimal digits with at most one point and at
\* least one digit (the cells carry no exponent and at most 15 significant
\* digits, so the decimal read is the value and Display prints it back).
ParseF64(s) ==
    LET signed == Len(s) > 0 /\ s[1] \in {"+", "-"}
        neg    == signed /\ s[1] = "-"
        body   == IF signed THEN Tail(s) ELSE s
        dots   == SelectSeq(Idx(Len(body)), LAMBDA i : body[i] = ".")
        ip     == IF dots = << >> THEN body ELSE SubSeq(body, 1, dots[1] - 1)
        fp     == IF dots = << >> THEN << >>
                  ELSE SubSeq(body, dots[1] + 1, Len(body))
    IN  IF body \in {<<"i", "n", "f">>, <<"i", "n", "f", "i", "n", "i", "t", "y">>}
          THEN [ok |-> TRUE, v |-> [kind |-> "inf", neg |-> neg]]
        ELSE IF body \in {<<"n", "a", "n">>, <<"N", "a", "N">>}
          THEN [ok |-> TRUE, v |-> [kind |-> "nan", neg |-> neg]]
        ELSE IF \/ Len(dots) > 1
                \/ Len(ip) + Len(fp) = 0
                \/ ~AllDigits(ip)
                \/ ~AllDigits(fp)
          THEN [ok |-> FALSE]
        ELSE [ok |-> TRUE,
              v  |-> [kind |-> "num", neg |-> neg,
                      int  |-> StripLeadingZeros(<<0>> \o DigitValues(ip)),
                      frac |-> StripTrailingZeros(DigitValues(fp))]]

\* Display for f64: shortest digits that read back, never an exponent
FormatF64(f) ==
    IF f.kind = "nan" THEN <<"N", "a", "N">>
    ELSE (IF f.neg THEN <<"-">> ELSE << >>)
         \o (IF f.kind = "inf" THEN <<"i", "n", "f">>
             ELSE DigitString(f.int)
                  \o (IF f.frac = << >> THEN << >>
                      ELSE <<".">> \o DigitString(f.frac)))

(* --------------------------- Value model ------------------------------ *)

\* impl From<EscapedStr> for Value
ValueFromEscaped(s) == [variant |-> "String", v |-> s]

\* impl From<FieldValue> for Value
ValueFromField(fv) ==
    CASE fv.variant = "I64"     -> [variant |-> "Int64", v |-> fv.v]
      [] fv.variant = "U64"     -> [variant |-> "UInt64", v |-> fv.v]
      [] fv.variant = "F64"     -> [variant |-> "Float64", v |-> fv.v]
      [] fv.variant = "String"  -> [variant |-> "String", v |-> fv.v]
      [] fv.variant = "Boolean" -> [variant |-> "Boolean", v |-> fv.v]

\* one CSV cell of a serialized Value (#[derive(Serialize)], written by
\* Writer::serialize): integers in decimal, floats always with a fraction,
\* booleans as true/false, strings as they are
SerializeValue(val) ==
    CASE val.variant = "Int64"   -> FormatI64(val.v)
      [] val.variant = "UInt64"  -> FormatI64(val.v)
      [] val.variant = "Float64" ->
            (IF val.v.neg THEN <<"-">> ELSE << >>)
            \o DigitString(val.v.int) \o <<".">>
            \o DigitString(IF val.v.frac = << >> THEN <<0>> ELSE val.v.frac)
      [] val.variant = "String"  -> val.v
      [] val.variant = "Boolean" -> IF val.v THEN <<"t", "r", "u", "e">> ELSE <<"f", "a", "l", "s", "e">>

(* ------------------- timestamp -> RFC 3339 (chrono) -------------------- *)

RECURSIVE NatOfDigits(_, _)
NatOfDigits(ds, acc) ==
    IF ds = << >> THEN acc ELSE NatOfDigits(Tail(ds), acc * 10 + Head(ds))

RECURSIVE DigitsOfNat(_)
DigitsOfNat(n) ==
    IF n < 10 THEN <<n>> ELSE DigitsOfNat(n \div 10) \o <<n % 10>>

RECURSIVE Pad(_, _)
\* the decimal digits of n, zero-padded to the given width
Pad(n, width) ==
    LET ds == DigitsOfNat(n)
    IN  IF Len(ds) >= width THEN DigitString(ds)
        ELSE <<"0">> \o Pad(n, width - 1)

\* Utc.timestamp_nanos: seconds and nanoseconds of the epoch value, by
\* euclidean division by 10^9 (the seconds of the model fit 31 bits)
TimestampNanos(ts) ==
    LET n  == Len(ts.digits)
        q  == IF n > 9 THEN NatOfDigits(SubSeq(ts.digits, 1, n - 9), 0) ELSE 0
        r  == NatOfDigits(SubSeq(ts.digits, IF n > 9 THEN n - 8 ELSE 1, n), 0)
    IN  IF ~ts.neg THEN [secs |-> q, nsecs |-> r]
        ELSE IF r = 0 THEN [secs |-> 0 - q, nsecs |-> 0]
        ELSE [secs |-> 0 - q - 1, nsecs |-> 1000000000 - r]

\* the proleptic Gregorian date of a day count since 1970-01-01
CivilFromDays(days) ==
    LET z   == days + 719468
        era == z \div 146097
        doe == z - era * 146097
        yoe == (doe - doe \div 1460 + doe \div 36524 - doe \div 146096) \div 365
        doy == doe - (365 * yoe + yoe \div 4 - yoe \div 100)
        mp  == (5 * doy + 2) \div 153
        d   == doy - (153 * mp + 2) \div 5 + 1
        m   == IF mp < 10 THEN mp + 3 ELSE mp - 9
    IN  [year |-> yoe + era * 400 + (IF m <= 2 THEN 1 ELSE 0),
         month |-> m, day |-> d]

\* DateTime<Utc>::to_rfc3339: date, time, the fraction in groups of three
\* digits as far as it is non-zero, and the fixed +00:00 offset
ToRfc3339(ts) ==
    LET t    == TimestampNanos(ts)
        date == CivilFromDays(t.secs \div 86400)
        sod  == t.secs % 86400
        frac == IF t.nsecs = 0 THEN << >>
                ELSE IF t.nsecs % 1000000 = 0
                  THEN <<".">> \o Pad(t.nsecs \div 1000000, 3)
                ELSE IF t.nsecs % 1000 = 0
                  THEN <<".">> \o Pad(t.nsecs \div 1000, 6)
                ELSE <<".">> \o Pad(t.nsecs, 9)
    IN  Pad(date.year, 4) \o <<"-">> \o Pad(date.month, 2) \o <<"-">>
        \o Pad(date.day, 2) \o <<"T">> \o Pad(sod \div 3600, 2) \o <<":">>
        \o Pad((sod % 3600) \div 60, 2) \o <<":">> \o Pad(sod % 60, 2)
        \o frac \o <<"+", "0", "0", ":", "0", "0">>

(* ------------------------------ state ---------------------------------- *)

VARIABLES
    cmd,              \* the subcommand run: "to_csv" or "from_csv"
    outcome,          \* "running", "ok" (returned) or "panic" (an unwrap failed)
    \* --- ToCsv / line_protocol_to_csv
    source,           \* the input: its physical lines, in order
    linesRead,        \* the physical lines read_line has returned
    row,              \* Vec<Value>: the row being built
    firstFieldCount,  \* the csv Writer's field count of its first record
    csvOut,           \* the records the csv Writer has written
    \* --- FromCsv / LineWriter
    timestamp,        \* LineWriter.timestamp: the timestamp column name
    tags,             \* LineWriter.tags: the tag column names
    input,            \* FromCsv.input: the input path
    inputIsDir,       \* whether the input path is a directory
    dirEntries,       \* the paths read_dir yields, in the order it yields them
    files,            \* path -> the CSV file there: [headers, records]
    overflow,         \* what the build does on integer overflow: "panics" with
                      \* overflow checks, "wraps" without; "unknown" until a
                      \* multiplication overflows and shows which
    pc,               \* where FromCsv::run stands
    paths,            \* the paths still to convert
    path,             \* the file being converted
    table_name,       \* its measurement
    headers,          \* its header record
    recordsRead,      \* the records of it read so far
    out               \* LineWriter.writer: the lines written

toCsvVars == <<source, linesRead, row, firstFieldCount, csvOut>>

configVars == <<timestamp, tags, input, inputIsDir, dirEntries, files>>

fromCsvVars == <<overflow, pc, paths, path, table_name, headers, recordsRead, out>>

vars == <<cmd, outcome, toCsvVars, configVars, fromCsvVars>>

(* ----------------------- line_protocol_to_csv -------------------------- *)

None == [some |-> FALSE]

Some(v) == [some |-> TRUE, v |-> v]

\* influxdb_line_protocol::parse_lines on one physical line: the results the
\* decoder yields for it (none for a blank or comment line)
ParseLines(physical) == physical.parsed

UnwrapLineIgnoresErr(parsed) == FALSE

\* `line.unwrap()` on each parsed line: panics on the first Err
UnwrapLinePanics(parsed) == \E i \in 1..Len(parsed) : ~parsed[i].ok

\* what one parsed line pushes onto the row: tag values, field values, then
\* the timestamp as an RFC 3339 string when there is one
PointValuesFieldsFirst(point) ==
    [i \in 1..Len(point.field_set) |-> ValueFromField(point.field_set[i][2])]
    \o [i \in 1..Len(point.tag_set) |-> ValueFromEscaped(point.tag_set[i][2])]
    \o (IF point.timestamp.some
        THEN <<[variant |-> "String", v |-> ToRfc3339(point.timestamp.v)]>>
        ELSE << >>)

PointValues(point) ==
    [i \in 1..Len(point.tag_set) |-> ValueFromEscaped(point.tag_set[i][2])]
    \o [i \in 1..Len(point.field_set) |-> ValueFromField(point.field_set[i][2])]
    \o (IF point.timestamp.some
        THEN <<[variant |-> "String", v |-> ToRfc3339(point.timestamp.v)]>>
        ELSE << >>)

\* the row after the `for line in parsed_lines` loop has pushed every
\* decoded point's values
RowAfterLine(r, parsed) ==
    LET points == SelectSeq(parsed, LAMBDA res : res.ok)
    IN  r \o Concat([i \in 1..Len(points) |-> PointValues(points[i].point)])

\* csv::Writer (not flexible): a record whose field count differs from the
\* first record's is an UnequalLengths error, which `.unwrap()` turns into a panic
SerializePanics(first, r) == first.some /\ first.v # Len(r)

\* row.clear()
ClearRow(r) == << >>

\* one iteration of the `while reader.read_line(..)` loop
ToCsvLine ==
    /\ cmd = "to_csv"
    /\ outcome = "running"
    /\ linesRead < Len(source)
    /\ LET parsed == ParseLines(source[linesRead + 1])
           r      == RowAfterLine(row, parsed)
       IN  /\ linesRead' = linesRead + 1
           /\ IF UnwrapLinePanics(parsed) \/ SerializePanics(firstFieldCount, r)
              THEN /\ outcome' = "panic"
                   /\ UNCHANGED <<row, firstFieldCount, csvOut>>
              ELSE /\ csvOut' = Append(csvOut,
                            [cells |-> [i \in 1..Len(r) |-> SerializeValue(r[i])],
                             line  |-> linesRead + 1])
                   /\ firstFieldCount' = Some(Len(r))
                   /\ row' = ClearRow(r)
                   /\ UNCHANGED outcome
    /\ UNCHANGED <<cmd, source, configVars, fromCsvVars>>

\* read_line returns 0: the loop ends and the writer is flushed and returned
ToCsvEnd ==
    /\ cmd = "to_csv"
    /\ outcome = "running"
    /\ linesRead = Len(source)
    /\ outcome' = "ok"
    /\ UNCHANGED <<cmd, toCsvVars, configVars, fromCsvVars>>

(* ------------------------------ LineWriter ----------------------------- *)

\* Path::file_stem: the final component, up to its last `.` unless that is
\* its first character
FileStem(p) ==
    LET slashes == SelectSeq(Idx(Len(p)), LAMBDA i : p[i] = "/")
        name    == IF slashes = << >> THEN p
                   ELSE SubSeq(p, slashes[Len(slashes)] + 1, Len(p))
        dots    == SelectSeq(Idx(Len(name)), LAMBDA i : name[i] = ".")
    IN  IF dots = << >> \/ dots[Len(dots)] = 1 THEN name
        ELSE SubSeq(name, 1, dots[Len(dots)] - 1)

\* `result.unwrap()` on a record: csv::Reader (not flexible) yields an
\* UnequalLengths error for a record whose length differs from the header's
UnwrapRecordPanics(hdrs, record) == Len(record) # Len(hdrs)

\* the tag columns in the order of the tag names, not of the header
TagColumnsInSetOrder(hdrs) ==
    LET cols == SelectSeq(Idx(Len(hdrs)), LAMBDA i : hdrs[i] \in tags)
    IN  CHOOSE s \in [1..Len(cols) -> Range(cols)] :
            /\ \A i, j \in 1..Len(cols) : i # j => s[i] # s[j]
            /\ \A i, j \in 1..Len(cols) : i < j => ~StrLess(hdrs[s[j]], hdrs[s[i]])

\* "Push tags": the columns written as tags, in header order
TagColumns(hdrs) ==
    IF tags # {} THEN SelectSeq(Idx(Len(hdrs)), LAMBDA i : hdrs[i] \in tags)
    ELSE << >>

\* "Push fields": the columns that are neither tag nor timestamp
FieldColumns(hdrs) ==
    SelectSeq(Idx(Len(hdrs)), LAMBDA i : hdrs[i] \notin tags /\ hdrs[i] # timestamp)

AllTimestampColumns(hdrs) ==
    SelectSeq(Idx(Len(hdrs)), LAMBDA i : hdrs[i] = timestamp)

\* "Push timestamp": the first column named as the timestamp (the loop breaks)
TimestampColumns(hdrs) ==
    LET named == SelectSeq(Idx(Len(hdrs)), LAMBDA i : hdrs[i] = timestamp)
    IN  IF named = << >> THEN << >> ELSE <<named[1]>>

TagToken(name, value) == <<",">> \o name \o <<"=">> \o value

FieldTokenAlwaysQuoted(name, value) ==
    name \o <<"=", "\"">> \o value \o <<"\"">>

\* a cell that parses as f64 is written as the float, any other in quotes
FieldToken(name, value) ==
    LET field == ParseF64(value)
    IN  IF field.ok THEN name \o <<"=">> \o FormatF64(field.v)
        ELSE name \o <<"=", "\"">> \o value \o <<"\"">>

\* `value.parse::<i64>().unwrap()` panics on a cell that is no i64
TimestampPanics(value) == ~ParseI64(value).ok

\* whether `ts * 1000 * 1000` overflows i64
TimestampOverflows(value) ==
    LET ts == ParseI64(value).v
    IN  \/ ~InI64Range(ExactMul1000(ts))
        \/ ~InI64Range(ExactMul1000(Mul1000(ts)))

\* milliseconds to nanoseconds, then ` {ts}`
TimestampToken(value) ==
    LET ts == ParseI64(value).v
    IN  <<" ">> \o FormatI64(Mul1000(Mul1000(ts)))

\* what the three loops over `headers.iter().zip(record.iter())` write
LineParts(hdrs, record) ==
    LET tagc == TagColumns(hdrs)
        fldc == FieldColumns(hdrs)
        tsc  == TimestampColumns(hdrs)
    IN  [tagCols     |-> tagc,
         fieldCols   |-> fldc,
         tsCols      |-> tsc,
         tagTokens   |-> [i \in 1..Len(tagc) |-> TagToken(hdrs[tagc[i]], record[tagc[i]])],
         fieldTokens |-> [i \in 1..Len(fldc) |->
                            FieldToken(hdrs[fldc[i]], record[fldc[i]])],
         tsTokens    |-> [i \in 1..Len(tsc) |-> TimestampToken(record[tsc[i]])]]

\* the line: measurement, tags, a space before the first field and a comma
\* before every other, the timestamp, a newline
LineText(table, parts) ==
    table
    \o Concat(parts.tagTokens)
    \o (IF parts.fieldTokens = << >> THEN << >>
        ELSE <<" ">> \o Join(parts.fieldTokens, <<",">>))
    \o Concat(parts.tsTokens)
    \o <<"\n">>

RECURSIVE InsertSorted(_, _)
InsertSorted(p, sorted) ==
    IF sorted = << >> THEN <<p>>
    ELSE IF StrLess(p, Head(sorted)) THEN <<p>> \o sorted
    ELSE <<Head(sorted)>> \o InsertSorted(p, Tail(sorted))

RECURSIVE SortStrings(_)
SortStrings(ps) ==
    IF ps = << >> THEN << >> ELSE InsertSorted(Head(ps), SortStrings(Tail(ps)))

ListingOrder(entries) == entries

\* from_csv_dir up to its loop: the entries' paths, sorted as strings
DirPaths(entries) == SortStrings(entries)

\* FromCsv::run on a directory
RunDir ==
    /\ cmd = "from_csv"
    /\ pc = "run"
    /\ inputIsDir
    /\ paths' = DirPaths(dirEntries)
    /\ pc' = "next_file"
    /\ UNCHANGED <<cmd, outcome, toCsvVars, configVars, overflow, path,
                   table_name, headers, recordsRead, out>>

\* FromCsv::run on a file
RunFile ==
    /\ cmd = "from_csv"
    /\ pc = "run"
    /\ ~inputIsDir
    /\ paths' = <<input>>
    /\ pc' = "next_file"
    /\ UNCHANGED <<cmd, outcome, toCsvVars, configVars, overflow, path,
                   table_name, headers, recordsRead, out>>

\* from_csv_file up to its loop: the measurement and the header record
OpenFile ==
    /\ cmd = "from_csv"
    /\ pc = "next_file"
    /\ paths # << >>
    /\ path' = Head(paths)
    /\ paths' = Tail(paths)
    /\ table_name' = FileStem(Head(paths))
    /\ headers' = files[Head(paths)].headers
    /\ recordsRead' = 0
    /\ pc' = "records"
    /\ UNCHANGED <<cmd, outcome, toCsvVars, configVars, overflow, out>>

\* one iteration of `for result in reader.records()`
ConvertRecord ==
    /\ cmd = "from_csv"
    /\ pc = "records"
    /\ outcome = "running"
    /\ recordsRead < Len(files[path].records)
    /\ LET record == files[path].records[recordsRead + 1]
           tsc    == TimestampColumns(headers)
           badLen == UnwrapRecordPanics(headers, record)
           badTs  == /\ ~badLen
                     /\ \E i \in 1..Len(tsc) : TimestampPanics(record[tsc[i]])
           wraps  == /\ ~badLen
                     /\ ~badTs
                     /\ \E i \in 1..Len(tsc) : TimestampOverflows(record[tsc[i]])
       IN  /\ recordsRead' = recordsRead + 1
           /\ \E checked \in (IF ~wraps THEN {FALSE}
                              ELSE IF overflow = "unknown" THEN BOOLEAN
                              ELSE {FALSE}) :
                IF badLen \/ badTs \/ checked
                THEN /\ outcome' = "panic"
                     /\ UNCHANGED <<out, overflow>>
                ELSE /\ out' = Append(out,
                            [text   |-> LineText(table_name, LineParts(headers, record)),
                             path   |-> path,
                             record |-> recordsRead + 1,
                             parts  |-> LineParts(headers, record)])
                     /\ overflow' = IF wraps THEN "wraps" ELSE overflow
                     /\ UNCHANGED outcome
    /\ UNCHANGED <<cmd, toCsvVars, configVars, pc, paths, path, table_name, headers>>

\* the records of the file are exhausted: from_csv_file returns
EndOfFile ==
    /\ cmd = "from_csv"
    /\ pc = "records"
    /\ outcome = "running"
    /\ recordsRead = Len(files[path].records)
    /\ pc' = "next_file"
    /\ UNCHANGED <<cmd, outcome, toCsvVars, configVars, overflow, paths, path,
                   table_name, headers, recordsRead, out>>

\* no path is left: FromCsv::run returns
FromCsvEnd ==
    /\ cmd = "from_csv"
    /\ pc = "next_file"
    /\ paths = << >>
    /\ pc' = "done"
    /\ outcome' = "ok"
    /\ UNCHANGED <<cmd, toCsvVars, configVars, overflow, paths, path,
                   table_name, headers, recordsRead, out>>

(* ------------------------------- inputs -------------------------------- *)

MaxLines == 3

MaxRows == 2

MaxFiles == 2

SeqsUpTo(S, n) == UNION {[1..k -> S] : k \in 0..n}

I64Of(s) == ParseI64(s).v

Point(tag_set, field_set, ts) ==
    [ok |-> TRUE,
     point |-> [tag_set |-> tag_set, field_set |-> field_set, timestamp |-> ts]]

Epoch2016 == Some(I64Of(<<"1", "4", "5", "1", "6", "0", "6", "4", "0", "0", "0", "0", "0", "0", "0", "0", "0", "0", "0">>))

\* The physical lines of the model, as read_line returns them, each with the
\* results the decoder yields for it: none for a blank or comment line, one
\* point for a well-formed line, one error for a malformed one.
ProtocolLines ==
    { [text   |-> <<"\n">>,
       parsed |-> << >>],
      [text   |-> <<"#", " ", "c", "p", "u", "\n">>,
       parsed |-> << >>],
      [text   |-> <<"c", "p", "u", ",", "h", "o", "s", "t", "n", "a", "m", "e", "=", "h", "o", "s", "t", "_", "0", " ", "u", "s", "a", "g", "e", "_", "u", "s", "e", "r", "=", "5", "8", "i", " ", "1", "4", "5", "1", "6", "0", "6", "4", "0", "0", "0", "0", "0", "0", "0", "0", "0", "0", "0", "\n">>,
       parsed |-> <<Point(<< <<<<"h", "o", "s", "t", "n", "a", "m", "e">>, <<"h", "o", "s", "t", "_", "0">>>> >>,
                          << <<<<"u", "s", "a", "g", "e", "_", "u", "s", "e", "r">>, [variant |-> "I64", v |-> I64Of(<<"5", "8">>)]>> >>,
                          Epoch2016)>>],
      [text   |-> <<"c", "p", "u", ",", "h", "o", "s", "t", "n", "a", "m", "e", "=", "h", "o", "s", "t", "_", "1", " ", "u", "s", "a", "g", "e", "_", "u", "s", "e", "r", "=", "2", ".", "5", " ", "1", "4", "5", "1", "6", "0", "6", "4", "0", "0", "0", "0", "0", "0", "0", "0", "0", "0", "0", "\n">>,
       parsed |-> <<Point(<< <<<<"h", "o", "s", "t", "n", "a", "m", "e">>, <<"h", "o", "s", "t", "_", "1">>>> >>,
                          << <<<<"u", "s", "a", "g", "e", "_", "u", "s", "e", "r">>, [variant |-> "F64", v |-> ParseF64(<<"2", ".", "5">>).v]>> >>,
                          Epoch2016)>>],
      [text   |-> <<"c", "p", "u", ",", "h", "o", "s", "t", "n", "a", "m", "e", "=", "h", "o", "s", "t", "_", "2", ",", "r", "e", "g", "i", "o", "n", "=", "e", "u", " ", "u", "s", "a", "g", "e", "_", "u", "s", "e", "r", "=", "8", "4", "i", "\n">>,
       parsed |-> <<Point(<< <<<<"h", "o", "s", "t", "n", "a", "m", "e">>, <<"h", "o", "s", "t", "_", "2">>>>, <<<<"r", "e", "g", "i", "o", "n">>, <<"e", "u">>>> >>,
                          << <<<<"u", "s", "a", "g", "e", "_", "u", "s", "e", "r">>, [variant |-> "I64", v |-> I64Of(<<"8", "4">>)]>> >>,
                          None)>>],
      [text   |-> <<"c", "p", "u", " ", "u", "s", "a", "g", "e", "_", "u", "s", "e", "r", "=", "2", "u", ",", "u", "s", "a", "g", "e", "_", "i", "d", "l", "e", "=", "t", "\n">>,
       parsed |-> <<Point(<< >>,
                          << <<<<"u", "s", "a", "g", "e", "_", "u", "s", "e", "r">>, [variant |-> "U64", v |-> I64Of(<<"2">>)]>>,
                             <<<<"u", "s", "a", "g", "e", "_", "i", "d", "l", "e">>, [variant |-> "Boolean", v |-> TRUE]>> >>,
                          None)>>],
      [text   |-> <<"c", "p", "u", ",", "h", "o", "s", "t", "n", "a", "m", "e", "=", "h", "o", "s", "t", "_", "0", "\n">>,
       parsed |-> << [ok |-> FALSE] >>] }

ColumnNames == {<<"h", "o", "s", "t", "n", "a", "m", "e">>, <<"t", "i", "m", "e", "s", "t", "a", "m", "p">>, <<"u", "s", "a", "g", "e", "_", "u", "s", "e", "r">>}

\* header records of one or two columns, repeated names included
Schemas == {<<a>> : a \in ColumnNames} \cup (ColumnNames \X ColumnNames)

CellValues == {<<"5", "8">>, <<"h", "o", "s", "t", "_", "0">>, <<"9", "2", "2", "3", "3", "7", "2", "0", "3", "6", "8", "5", "5">>}

\* the records a file with the given header may hold: every record of the
\* header's length, and one shorter and one longer than it
RecordsFor(hdrs) ==
    [1..Len(hdrs) -> CellValues]
    \cup {[i \in 1..(Len(hdrs) - 1) |-> <<"5", "8">>], [i \in 1..(Len(hdrs) + 1) |-> <<"5", "8">>]}

TagSets == SUBSET {<<"h", "o", "s", "t", "n", "a", "m", "e">>, <<"t", "i", "m", "e", "s", "t", "a", "m", "p">>}

\* timestamp cells around the ends of the i64 range and of the range whose
\* product with 1,000,000 fits, and cells that are no integer
TimestampCells ==
    {<<"0">>, <<"-", "1">>, <<"+", "1", "4", "5", "1", "6", "0", "6", "4", "0", "0", "0", "0", "0">>, <<"1", "4", "5", "1", "6", "0", "6", "4", "0", "0", "0", "0", "0">>,
     <<"9", "2", "2", "3", "3", "7", "2", "0", "3", "6", "8", "5", "4">>, <<"9", "2", "2", "3", "3", "7", "2", "0", "3", "6", "8", "5", "5">>, <<"-", "9", "2", "2", "3", "3", "7", "2", "0", "3", "6", "8", "5", "4">>, <<"-", "9", "2", "2", "3", "3", "7", "2", "0", "3", "6", "8", "5", "5">>,
     <<"9", "2", "2", "3", "3", "7", "2", "0", "3", "6", "8", "5", "4", "7", "7", "5">>, <<"9", "2", "2", "3", "3", "7", "2", "0", "3", "6", "8", "5", "4", "7", "7", "6">>,
     <<"9", "2", "2", "3", "3", "7", "2", "0", "3", "6", "8", "5", "4", "7", "7", "5", "8", "0", "7">>, <<"9", "2", "2", "3", "3", "7", "2", "0", "3", "6", "8", "5", "4", "7", "7", "5", "8", "0", "8">>,
     <<"-", "9", "2", "2", "3", "3", "7", "2", "0", "3", "6", "8", "5", "4", "7", "7", "5", "8", "0", "8">>, <<"-", "9", "2", "2", "3", "3", "7", "2", "0", "3", "6", "8", "5", "4", "7", "7", "5", "8", "0", "9">>,
     << >>, <<"-">>, <<"1", "4", "5", "1", "6", "0", "6", "4", "0", "0", "0", "0", "0", ".", "0">>, <<"2", "0", "1", "6", "-", "0", "1", "-", "0", "1">>}

\* field cells: numbers in several spellings, and text
FieldCells ==
    {<<"5", "8">>, <<"2">>, <<"2", ".", "5", "0">>, <<"-", "0">>, <<"+", "7">>, <<".", "5">>, <<"0", "0", "5", "8">>, <<"i", "n", "f">>, <<"n", "a", "n">>,
     << >>, <<"h", "o", "s", "t", "_", "0">>, <<"5", "8", "i">>, <<"t", "r", "u", "e">>}

DirFileNames == {<<"d", "/", "m", "e", "t", "r", "i", "c", "1", ".", "c", "s", "v">>, <<"d", "/", "m", "e", "t", "r", "i", "c", "1", "0", ".", "c", "s", "v">>, <<"d", "/", "m", "e", "t", "r", "i", "c", "2", ".", "c", "s", "v">>}

\* the contents a file of a directory may have
DirFiles ==
    { [headers |-> <<<<"h", "o", "s", "t", "n", "a", "m", "e">>, <<"t", "i", "m", "e", "s", "t", "a", "m", "p">>, <<"u", "s", "a", "g", "e", "_", "u", "s", "e", "r">>, <<"u", "s", "a", "g", "e", "_", "s", "y", "s", "t", "e", "m">>>>,
       records |-> << <<<<"h", "o", "s", "t", "_", "0">>, <<"1", "4", "5", "1", "6", "0", "6", "4", "0", "0", "0", "0", "0">>, <<"5", "8">>, <<"2">>>>,
                      <<<<"h", "o", "s", "t", "_", "1">>, <<"1", "4", "5", "1", "6", "0", "6", "4", "0", "0", "0", "0", "1">>, <<"8", "4">>, <<"1", "1">>>> >>],
      [headers |-> <<<<"r", "e", "g", "i", "o", "n">>, <<"u", "s", "a", "g", "e", "_", "u", "s", "e", "r">>, <<"u", "s", "a", "g", "e", "_", "s", "y", "s", "t", "e", "m">>, <<"t", "i", "m", "e", "s", "t", "a", "m", "p">>>>,
       records |-> << <<<<"e", "u", "-", "c", "e", "n", "t", "r", "a", "l", "-", "1">>, <<"5", "2">>, <<"1", "3">>, <<"1", "4", "5", "1", "6", "0", "6", "4", "0", "0", "0", "0", "0">>>> >>],
      [headers |-> <<<<"h", "o", "s", "t", "n", "a", "m", "e">>, <<"t", "i", "m", "e", "s", "t", "a", "m", "p">>, <<"u", "s", "a", "g", "e", "_", "u", "s", "e", "r">>>>,
       records |-> << <<<<"h", "o", "s", "t", "_", "0">>, <<"1", "4", "5", "1", "6", "0", "6", "4", "0", "0", "0", "0", "0">>, <<"5", "8">>>>,
                      <<<<"h", "o", "s", "t", "_", "1">>, <<"y", "e", "s", "t", "e", "r", "d", "a", "y">>, <<"8", "4">>>>,
                      <<<<"h", "o", "s", "t", "_", "2">>, <<"1", "4", "5", "1", "6", "0", "6", "4", "0", "0", "0", "0", "2">>, <<"2", "9">>>> >>] }

\* the listings of a directory: up to MaxFiles of the names, in any order
Listings ==
    {l \in SeqsUpTo(DirFileNames, MaxFiles) :
        \A i, j \in 1..Len(l) : i # j => l[i] # l[j]}

(* ------------------------------ behaviour ------------------------------ *)

ToCsvIdle ==
    /\ source = << >>
    /\ linesRead = 0
    /\ row = << >>
    /\ firstFieldCount = None
    /\ csvOut = << >>

FromCsvIdle ==
    /\ timestamp = << >>
    /\ tags = {}
    /\ input = << >>
    /\ inputIsDir = FALSE
    /\ dirEntries = << >>
    /\ files = << >>
    /\ overflow = "unknown"
    /\ pc = "idle"
    /\ paths = << >>
    /\ path = << >>
    /\ table_name = << >>
    /\ headers = << >>
    /\ recordsRead = 0
    /\ out = << >>

FromCsvStart ==
    /\ cmd = "from_csv"
    /\ outcome = "running"
    /\ ToCsvIdle
    /\ overflow = "unknown"
    /\ pc = "run"
    /\ paths = << >>
    /\ path = << >>
    /\ table_name = << >>
    /\ headers = << >>
    /\ recordsRead = 0
    /\ out = << >>

\* tsdb-tools influx to-csv: any input of up to MaxLines lines
InitToCsv ==
    /\ cmd = "to_csv"
    /\ outcome = "running"
    /\ source \in SeqsUpTo(ProtocolLines, MaxLines)
    /\ linesRead = 0
    /\ row = << >>
    /\ firstFieldCount = None
    /\ csvOut = << >>
    /\ FromCsvIdle

\* tsdb-tools influx from-csv on one file: any header of Schemas, up to
\* MaxRows records over CellValues, any tag set of TagSets
InitFromCsvFile ==
    /\ FromCsvStart
    /\ timestamp = <<"t", "i", "m", "e", "s", "t", "a", "m", "p">>
    /\ tags \in TagSets
    /\ input = <<"m", "e", "t", "r", "i", "c", "1", ".", "c", "s", "v">>
    /\ inputIsDir = FALSE
    /\ dirEntries = << >>
    /\ \E hdrs \in Schemas :
         \E records \in SeqsUpTo(RecordsFor(hdrs), MaxRows) :
            files = [p \in {input} |-> [headers |-> hdrs, records |-> records]]

\* the same on one file of one record, over the wider cell sets
InitFromCsvCells ==
    /\ FromCsvStart
    /\ timestamp = <<"t", "i", "m", "e", "s", "t", "a", "m", "p">>
    /\ tags = {}
    /\ input = <<"m", "e", "t", "r", "i", "c", "1", ".", "c", "s", "v">>
    /\ inputIsDir = FALSE
    /\ dirEntries = << >>
    /\ \E ts \in TimestampCells, field \in FieldCells :
         files = [p \in {input} |->
                    [headers |-> <<<<"t", "i", "m", "e", "s", "t", "a", "m", "p">>, <<"u", "s", "a", "g", "e", "_", "u", "s", "e", "r">>>>,
                     records |-> << <<ts, field>> >>]]

\* tsdb-tools influx from-csv on a directory, listed in any order
InitFromCsvDir ==
    /\ FromCsvStart
    /\ timestamp = <<"t", "i", "m", "e", "s", "t", "a", "m", "p">>
    /\ tags = {<<"h", "o", "s", "t", "n", "a", "m", "e">>, <<"r", "e", "g", "i", "o", "n">>}
    /\ input = <<"d">>
    /\ inputIsDir = TRUE
    /\ dirEntries \in Listings
    /\ files \in [Range(dirEntries) -> DirFiles]

Init == InitToCsv \/ InitFromCsvFile \/ InitFromCsvCells \/ InitFromCsvDir

Next ==
    \/ ToCsvLine
    \/ ToCsvEnd
    \/ RunDir
    \/ RunFile
    \/ OpenFile
    \/ ConvertRecord
    \/ EndOfFile
    \/ FromCsvEnd

Spec == Init /\ [][Next]_vars

(* ------------------------ line protocol -> CSV ------------------------- *)

\* the points decoded from the first n physical lines, in input order
RECURSIVE DecodedPoints(_)
DecodedPoints(n) ==
    IF n = 0 THEN << >>
    ELSE LET oks == SelectSeq(ParseLines(source[n]), LAMBDA res : res.ok)
         IN  DecodedPoints(n - 1) \o [i \in 1..Len(oks) |-> oks[i].point]

\* the cells the contract gives a point: its T tag values, its F field
\* values, and its timestamp in RFC 3339 if it has one
HasPointLayout(cells, point) ==
    LET T == Len(point.tag_set)
        F == Len(point.field_set)
    IN  /\ Len(cells) = T + F + (IF point.timestamp.some THEN 1 ELSE 0)
        /\ \A k \in 1..T : cells[k] = point.tag_set[k][2]
        /\ \A k \in 1..F :
              cells[T + k] = SerializeValue(ValueFromField(point.field_set[k][2]))
        /\ point.timestamp.some => cells[T + F + 1] = ToRfc3339(point.timestamp.v)

\* C1: line_protocol_to_csv writes exactly one CSV row per decoded point: the
\* rows written are as many as the points decoded from the lines read, and
\* the i-th row is the row of the i-th point.
C1_OneRowPerPoint ==
    cmd = "to_csv" =>
        LET points == DecodedPoints(linesRead)
        IN  /\ Len(csvOut) = Len(points)
            /\ \A i \in 1..Len(csvOut) : HasPointLayout(csvOut[i].cells, points[i])

\* C2: the row emitted for a decoded point with T tags and F fields holds the
\* T tag values in declared order, then the F field values in declared order,
\* then the timestamp cell only if the point has a timestamp: T+F+1 cells with
\* a timestamp, T+F without, and nothing from an earlier line.
C2_RowLayout ==
    \A i \in 1..Len(csvOut) :
        LET parsed == ParseLines(source[csvOut[i].line])
        IN  \A j \in 1..Len(parsed) :
                parsed[j].ok => HasPointLayout(csvOut[i].cells, parsed[j].point)

\* a row of a point with a timestamp follows a row of a point without one
C2_Witness ==
    /\ Len(csvOut) >= 2
    /\ \E i, j \in 1..Len(csvOut) :
          LET a == ParseLines(source[csvOut[i].line])
              b == ParseLines(source[csvOut[j].line])
          IN  /\ i < j
              /\ a # << >> /\ ~a[1].point.timestamp.some
              /\ b # << >> /\ b[1].point.timestamp.some
              /\ Len(b[1].point.tag_set) = 1
              /\ Len(b[1].point.field_set) = 1
              /\ Len(csvOut[j].cells) = 3
              /\ csvOut[j].cells[3] = <<"2", "0", "1", "6", "-", "0", "1", "-", "0", "1", "T", "0", "0", ":", "0", "0", ":", "0", "0", "+", "0", "0", ":", "0", "0">>

(* ------------------------ CSV -> line protocol ------------------------- *)

\* the records of the files that `reader.records()` has yielded so far
Processed(p, r) ==
    /\ cmd = "from_csv"
    /\ pc \in {"next_file", "records", "done"}
    /\ p \in DOMAIN files
    /\ r \in 1..Len(files[p].records)
    /\ IF p = path THEN r <= recordsRead ELSE p \notin Range(paths)

LineOf(p, r) == {i \in 1..Len(out) : out[i].path = p /\ out[i].record = r}

AllRecords == UNION {{<<p, r>> : r \in 1..Len(files[p].records)} : p \in DOMAIN files}

\* the classification of the data model, from the header and the configuration
IsTagName(name) == name \in tags

IsTimestampName(name) == name = timestamp

IsFieldName(name) == name \notin tags /\ name # timestamp

ColumnsWhere(hdrs, Test(_)) == SelectSeq(Idx(Len(hdrs)), LAMBDA c : Test(hdrs[c]))

EndsWith(s, t) == Len(s) >= Len(t) /\ SubSeq(s, Len(s) - Len(t) + 1, Len(s)) = t

\* the tag, field and timestamp groups of the line of record r of file p
TagGroup(hdrs, rec) ==
    LET cols == ColumnsWhere(hdrs, IsTagName)
    IN  Concat([k \in 1..Len(cols) |->
                  <<",">> \o hdrs[cols[k]] \o <<"=">> \o rec[cols[k]]])

FieldGroup(hdrs, rec) ==
    LET cols == ColumnsWhere(hdrs, IsFieldName)
    IN  Join([k \in 1..Len(cols) |-> FieldToken(hdrs[cols[k]], rec[cols[k]])], <<",">>)

TimestampOf(hdrs, rec) ==
    LET cols == ColumnsWhere(hdrs, IsTimestampName)
    IN  FormatI64(Mul1000(Mul1000(ParseI64(rec[cols[1]]).v)))

\* the records read make one line each, in the order read
OneLinePerRecord ==
    /\ \A i, j \in 1..Len(out) :
          i < j /\ out[i].path = out[j].path => out[i].record < out[j].record
    /\ \A pr \in AllRecords :
          Processed(pr[1], pr[2]) /\ outcome # "panic" => Cardinality(LineOf(pr[1], pr[2])) = 1
    /\ \A i \in 1..Len(out) : Processed(out[i].path, out[i].record)

C4_ExactNanoseconds ==
    \A pr \in AllRecords :
        LET hdrs  == files[pr[1]].headers
            rec   == files[pr[1]].records[pr[2]]
            named == ColumnsWhere(hdrs, IsTimestampName)
        IN  /\ Processed(pr[1], pr[2])
            /\ Len(rec) = Len(hdrs)
            /\ named # << >>
            /\ ParseI64(rec[named[1]]).ok
            => \E i \in LineOf(pr[1], pr[2]) :
                  EndsWith(out[i].text,
                           <<" ">>
                           \o FormatI64(ExactMul1000(ExactMul1000(ParseI64(rec[named[1]]).v)))
                           \o <<"\n">>)

\* C5: from_csv_dir converts the files in ascending path-string order whatever
\* the listing order: the lines are sorted by path and, within a file, by
\* record; a file's lines start only when every file that sorts before it is
\* written out in full; and a run that returns has written every record.
C5_DirectoryOrder ==
    cmd = "from_csv" /\ inputIsDir =>
        /\ \A i, j \in 1..Len(out) :
              i < j => \/ StrLess(out[i].path, out[j].path)
                       \/ /\ out[i].path = out[j].path
                          /\ out[i].record < out[j].record
        /\ \A i \in 1..Len(out) : \A p \in Range(dirEntries) :
              StrLess(p, out[i].path) =>
                  \A r \in 1..Len(files[p].records) :
                      \E k \in LineOf(p, r) : k < i
        /\ outcome = "ok" =>
              \A pr \in AllRecords : Cardinality(LineOf(pr[1], pr[2])) = 1

\* a directory listed in descending order, converted in full
C5_Witness ==
    /\ outcome = "ok"
    /\ inputIsDir
    /\ Len(dirEntries) = 2
    /\ StrLess(dirEntries[2], dirEntries[1])
    /\ out # << >>
    /\ out[1].path = dirEntries[2]
    /\ out[Len(out)].path = dirEntries[1]

ErrorLine(n) == \E j \in 1..Len(ParseLines(source[n])) : ~ParseLines(source[n])[j].ok

ErrorRecord(p, r) ==
    LET hdrs  == files[p].headers
        rec   == files[p].records[r]
        named == ColumnsWhere(hdrs, IsTimestampName)
    IN  \/ Len(rec) # Len(hdrs)
        \/ named # << >> /\ ~ParseI64(rec[named[1]]).ok

C7_NoLineWithoutField ==
    \A pr \in AllRecords :
        /\ Processed(pr[1], pr[2])
        /\ ColumnsWhere(files[pr[1]].headers, IsFieldName) = << >>
        => /\ outcome = "panic"
           /\ LineOf(pr[1], pr[2]) = {}

DistinctNames(hdrs) == \A a, b \in 1..Len(hdrs) : a # b => hdrs[a] # hdrs[b]

\* C8: every column is of exactly one class (Tag if its name is in the tag
\* set, otherwise Timestamp if it is the timestamp column name, otherwise
\* Field), and its cell goes into the token group of that class and no other,
\* for any configuration.  Stated for the headers whose names are distinct.
C8_OneGroupPerColumn ==
    \A i \in 1..Len(out) :
        LET hdrs == files[out[i].path].headers
        IN  DistinctNames(hdrs) => \A c \in 1..Len(hdrs) :
              /\ c \in Range(out[i].parts.tagCols) <=> IsTagName(hdrs[c])
              /\ c \in Range(out[i].parts.tsCols)
                    <=> ~IsTagName(hdrs[c]) /\ IsTimestampName(hdrs[c])
              /\ c \in Range(out[i].parts.fieldCols) <=> IsFieldName(hdrs[c])

\* C9: a Field cell that parses as a number is written as name=value with no
\* quotes and no type suffix, the value reading back as the same number; any
\* other cell is written as name="value".  So the cell that to-csv writes for
\* the Int64 field usage_user=58i comes back as usage_user=58.
C9_FieldRendering ==
    \A i \in 1..Len(out) :
        LET hdrs == files[out[i].path].headers
            rec  == files[out[i].path].records[out[i].record]
            cols == ColumnsWhere(hdrs, IsFieldName)
            toks == out[i].parts.fieldTokens
        IN  /\ Len(toks) = Len(cols)
            /\ \A k \in 1..Len(cols) :
                  LET name  == hdrs[cols[k]]
                      cell  == rec[cols[k]]
                      value == SubSeq(toks[k], Len(name) + 2, Len(toks[k]))
                  IN  /\ SubSeq(toks[k], 1, Len(name) + 1) = name \o <<"=">>
                      /\ IF ParseF64(cell).ok
                         THEN /\ "\"" \notin Range(value)
                              /\ value[Len(value)] \notin {"i", "u"}
                              /\ ParseF64(value).ok
                              /\ ParseF64(value).v = ParseF64(cell).v
                         ELSE value = <<"\"">> \o cell \o <<"\"">>
                      /\ /\ name = <<"u", "s", "a", "g", "e", "_", "u", "s", "e", "r">>
                         /\ cell = SerializeValue(ValueFromField(
                                      [variant |-> "I64", v |-> I64Of(<<"5", "8">>)]))
                         => toks[k] = <<"u", "s", "a", "g", "e", "_", "u", "s", "e", "r", "=", "5", "8">>

\* a line with a number and a text in Field columns
C9_Witness ==
    \E i \in 1..Len(out) :
        /\ files[out[i].path].records[out[i].record] = <<<<"5", "8">>, <<"h", "o", "s", "t", "_", "0">>>>
        /\ out[i].text = <<"m", "e", "t", "r", "i", "c", "1", " ", "u", "s", "a", "g", "e", "_", "u", "s", "e", "r", "=", "5", "8", ",", "u", "s", "a", "g", "e", "_", "u", "s", "e", "r", "=", "\"", "h", "o", "s", "t", "_", "0", "\"", "\n">>

\* C10: a line carries at most one timestamp token: none, and no failure, when
\* no column is named as the timestamp column; exactly one, from the first
\* such column in header order, when one or more are.
C10_AtMostOneTimestamp ==
    /\ \A i \in 1..Len(out) :
          LET hdrs  == files[out[i].path].headers
              rec   == files[out[i].path].records[out[i].record]
              named == ColumnsWhere(hdrs, IsTimestampName)
              toks  == out[i].parts.tsTokens
          IN  /\ Len(toks) <= 1
              /\ named = << >> => toks = << >>
              /\ named # << >> => toks = << <<" ">> \o TimestampOf(hdrs, rec) >>
              /\ EndsWith(out[i].text, Concat(toks) \o <<"\n">>)
              /\ out[i].text = LineText(FileStem(out[i].path), out[i].parts)
    /\ \A pr \in AllRecords :
          /\ Processed(pr[1], pr[2])
          /\ Len(files[pr[1]].records[pr[2]]) = Len(files[pr[1]].headers)
          /\ ColumnsWhere(files[pr[1]].headers, IsTimestampName) = << >>
          => LineOf(pr[1], pr[2]) # {}

\* a line of a header that names the timestamp column twice
C10_Witness ==
    \E i \in 1..Len(out) :
        /\ files[out[i].path].headers = <<<<"t", "i", "m", "e", "s", "t", "a", "m", "p">>, <<"t", "i", "m", "e", "s", "t", "a", "m", "p">>>>
        /\ files[out[i].path].records[out[i].record] = <<<<"5", "8">>, <<"h", "o", "s", "t", "_", "0">>>>
        /\ out[i].text = <<"m", "e", "t", "r", "i", "c", "1", " ", "5", "8", "0", "0", "0", "0", "0", "0", "\n">>

====
